---- MODULE Spec2Model ----
(***************************************************************************)
(* Model of src/app.js: the paginated fetch of event documents, their      *)
(* normalisation and classification, the sort and the statistics done by   *)
(* init, and the filter/render reaction to filter-button clicks.           *)
(*                                                                         *)
(* An optional JavaScript value (a property that may be absent, a variable *)
(* that may be undefined) is a sequence of length 0 or 1: << >> is         *)
(* undefined, <<v>> is the value v.                                        *)
(***************************************************************************)
EXTENDS Integers, Sequences, FiniteSets, TLC

\* ------------------------------------------------------------------ bounds
MaxPages == 3
MaxPageDocs == 2
MaxDocs == 3

\* --------------------------------------------------------------- constants
API_URL == "https://firestore.googleapis.com/v1/projects/yoani-buppan-dev/databases/(default)/documents/events-prod"

\* Object.entries(GROUP_CONFIG) enumerates the keys in this (insertion) order.
GroupKeys == <<"equal-love", "not-equal-me", "nearly-equal-joy", "unknown">>

\* The display names are transliterated to ASCII.
GROUP_CONFIG ==
    ("equal-love" :> [url |-> "https://equal-love.jp/", displayName |-> "=LOVE"]) @@
    ("not-equal-me" :> [url |-> "https://not-equal-me.jp/", displayName |-> "!=ME"]) @@
    ("nearly-equal-joy" :> [url |-> "https://nearly-equal-joy.jp/", displayName |-> "~=JOY"]) @@
    ("unknown" :> [url |-> "", displayName |-> "sonota"])

Undefined == << >>

Some(v) == <<v>>

\* JavaScript truthiness of an optional string: undefined and '' are falsy.
Truthy(opt) == opt # Undefined /\ opt[1] # ""

\* Faulty variant: an absent value is interpolated as the text 'undefined'.
OrElse_noDefault(opt, d) == IF opt = Undefined THEN "undefined" ELSE opt[1]

\* x ?? d on an optional value.
OrElse(opt, d) == IF opt = Undefined THEN d ELSE opt[1]

Range(s) == {s[i] : i \in DOMAIN s}

\* ------------------------------------------------------- utility functions
RECURSIVE ScanGroups(_, _)
ScanGroups(i, siteUrl) ==
    IF i > Len(GroupKeys) THEN "unknown"
    ELSE IF GROUP_CONFIG[GroupKeys[i]].url = siteUrl THEN GroupKeys[i]
    ELSE ScanGroups(i + 1, siteUrl)

\* Faulty variant: an unmatched URL is returned as the group.
officialSiteToGroup_passthrough(siteUrl) ==
    IF \E i \in DOMAIN GroupKeys : GROUP_CONFIG[GroupKeys[i]].url = siteUrl
    THEN ScanGroups(1, siteUrl)
    ELSE siteUrl

\* Faulty variant: the trailing slash of the reference URL is not compared.
officialSiteToGroup_prefix(siteUrl) ==
    IF siteUrl = "https://equal-love.jp" THEN "equal-love" ELSE ScanGroups(1, siteUrl)

officialSiteToGroup(siteUrl) == ScanGroups(1, siteUrl)

getGroupDisplayName(group) ==
    IF group \in DOMAIN GROUP_CONFIG THEN GROUP_CONFIG[group].displayName ELSE "sonota"

generateShopLink(event) == <<"https://monosys.net/", event.group, "/", event.id>>

\* div.textContent = text; div.innerHTML: the markup-significant characters
\* of the names the documents carry are replaced by entities.
escapeHtml(text) ==
    CASE text = "<b>" -> "&lt;b&gt;"
      [] OTHER -> text

\* String(n) for a natural number.
RECURSIVE NumToString(_)
NumToString(n) ==
    LET digits == <<"0", "1", "2", "3", "4", "5", "6", "7", "8", "9">>
    IN IF n < 10 THEN digits[n + 1] ELSE NumToString(n \div 10) \o digits[(n % 10) + 1]

\* ------------------------------------------------------- remote documents
\* The creation times the endpoint reports, and new Date(s).getTime() on them.
CreateTimes == {"1970-01-01T00:00:00.100Z", "1970-01-01T00:00:00.200Z"}

DateGetTime(s) ==
    CASE s = "1970-01-01T00:00:00.100Z" -> 100
      [] s = "1970-01-01T00:00:00.200Z" -> 200

\* The n-th document of the collection: its path-like name ends in a segment
\* no other document has.
DocName(n) == <<"projects", "yoani-buppan-dev", "databases", "(default)",
                "documents", "events-prod", "e" \o NumToString(n)>>

\* The documents the endpoint serves: a field bag (the event name and the
\* official site URL, each possibly absent) and a creation time.  The URLs
\* are the three configured ones, one that differs from a configured one by
\* its trailing slash only, and an absent one.
DocShapes ==
    { [event_name |-> Some("<b>"), official_site_url |-> Some("https://equal-love.jp/"),
       createTime |-> "1970-01-01T00:00:00.200Z"],
      [event_name |-> Some("live"), official_site_url |-> Some("https://not-equal-me.jp/"),
       createTime |-> "1970-01-01T00:00:00.100Z"],
      [event_name |-> Some("live"), official_site_url |-> Some("https://nearly-equal-joy.jp/"),
       createTime |-> "1970-01-01T00:00:00.100Z"],
      [event_name |-> Undefined, official_site_url |-> Some("https://equal-love.jp"),
       createTime |-> "1970-01-01T00:00:00.200Z"],
      [event_name |-> Some("live"), official_site_url |-> Undefined,
       createTime |-> "1970-01-01T00:00:00.100Z"] }

MakeDoc(n, shape) ==
    [name |-> DocName(n), createTime |-> shape.createTime,
     fields |-> [event_name |-> shape.event_name,
                 official_site_url |-> shape.official_site_url]]

\* The sequences of k documents that follow `have` documents already served.
RECURSIVE DocSeqs(_, _)
DocSeqs(have, k) ==
    IF k = 0 THEN {<< >>}
    ELSE {Append(s, MakeDoc(have + k, shape)) : s \in DocSeqs(have, k - 1), shape \in DocShapes}

\* The token the endpoint returns with page number p when more pages exist.
TokenAfter(p) == Some("page-" \o NumToString(p + 1))

\* --------------------------------------------------------------- fetchEvents
\* Faulty variant: the token is never appended.
RequestUrl_noToken(pageToken) == <<API_URL>>

\* The URL of a page request: the token is appended when it is truthy.
RequestUrl(pageToken) ==
    IF Truthy(pageToken) THEN <<API_URL, "?pageToken=", pageToken[1]>> ELSE <<API_URL>>

\* Faulty variant: a body without documents leaves the loop (break for continue).
NextPageToken_breakOnEmpty(data) ==
    IF data.documents # Undefined /\ Truthy(data.nextPageToken)
    THEN data.nextPageToken ELSE Undefined

\* pageToken = data.nextPageToken || undefined
NextPageToken(data) ==
    IF Truthy(data.nextPageToken) THEN data.nextPageToken ELSE Undefined

\* doc.name.split('/').pop()
LastSegment(path) == path[Len(path)]

NormalizeDoc(doc) ==
    [id |-> LastSegment(doc.name),
     name |-> OrElse(doc.fields.event_name, ""),
     group |-> officialSiteToGroup(OrElse(doc.fields.official_site_url, "")),
     created |-> DateGetTime(doc.createTime)]

\* data.documents.map(doc => ({...}))
MapDocs(docs) == [i \in DOMAIN docs |-> NormalizeDoc(docs[i])]

\* Faulty variant: the page replaces the accumulator.
PushAll_assign(list, events) == events

\* eventList.push(...events)
PushAll(list, events) == list \o events

\* The accumulator after one parsed body: a body without documents is skipped.
AfterPage(list, data) ==
    IF data.documents = Undefined THEN list
    ELSE PushAll(list, MapDocs(data.documents[1]))

\* Faulty variant: the catch clause requests the failed page once more.
RequestsAfterCatch_retry(reqs) == Append(reqs, reqs[Len(reqs)])

\* The catch clause issues no request.
RequestsAfterCatch(reqs) == reqs

\* Faulty variant: the catch clause returns what was accumulated.
CatchResult_partial(list) == list

\* catch (error) { console.error(...); return []; }
CatchResult(list) == << >>

\* ---------------------------------------------------------------------- sort
\* Faulty variant: the operands are swapped (oldest first).
compareEvents_ascending(a, b) == a.created - b.created

\* The comparator of allEvents.sort: positive when b is to come before a.
compareEvents(a, b) == b.created - a.created

\* Array.prototype.sort is stable: an element moves in front of an earlier
\* one only when the comparator says so.
RECURSIVE InsertSorted(_, _)
InsertSorted(s, x) ==
    IF s = << >> THEN <<x>>
    ELSE IF compareEvents(s[Len(s)], x) > 0
         THEN Append(InsertSorted(SubSeq(s, 1, Len(s) - 1), x), s[Len(s)])
         ELSE Append(s, x)

RECURSIVE SortEvents(_)
SortEvents(s) ==
    IF s = << >> THEN << >>
    ELSE InsertSorted(SortEvents(SubSeq(s, 1, Len(s) - 1)), s[Len(s)])

\* --------------------------------------------------------------- updateStats
ZeroCounts == [k \in {"equal-love", "not-equal-me", "nearly-equal-joy", "unknown"} |-> 0]

\* Faulty variant: only the categories that have a slot are counted.
CountEvent_displayedOnly(counts, event) ==
    IF event.group \in (DOMAIN counts \ {"unknown"})
    THEN [counts EXCEPT ![event.group] = @ + 1]
    ELSE counts

\* if (counts.hasOwnProperty(event.group)) counts[event.group]++
CountEvent(counts, event) ==
    IF event.group \in DOMAIN counts
    THEN [counts EXCEPT ![event.group] = @ + 1]
    ELSE counts

RECURSIVE CountEvents(_, _)
CountEvents(counts, events) ==
    IF events = << >> THEN counts
    ELSE CountEvents(CountEvent(counts, Head(events)), Tail(events))

\* The ids of the elements updateStats writes.
StatSlots == {"count-all", "count-equal-love", "count-not-equal-me",
              "count-nearly-equal-joy", "stat-equal-love", "stat-not-equal-me",
              "stat-nearly-equal-joy"}

\* The text of each slot after updateStats, given the counts it computed.
StatsText(counts, events) ==
    ("count-all" :> NumToString(Len(events))) @@
    ("count-equal-love" :> NumToString(counts["equal-love"])) @@
    ("count-not-equal-me" :> NumToString(counts["not-equal-me"])) @@
    ("count-nearly-equal-joy" :> NumToString(counts["nearly-equal-joy"])) @@
    ("stat-equal-love" :> NumToString(counts["equal-love"])) @@
    ("stat-not-equal-me" :> NumToString(counts["not-equal-me"])) @@
    ("stat-nearly-equal-joy" :> NumToString(counts["nearly-equal-joy"]))

\* -------------------------------------------------------------- renderEvents
\* One card of the list: the class and link derived from the group and id,
\* the badge and the escaped name (the date is left out of the card here).
EventCard(event) ==
    [class |-> event.group,
     href |-> generateShopLink(event),
     badge |-> getGroupDisplayName(event.group),
     name |-> escapeHtml(event.name)]

\* Faulty variant: renderEvents returns before it writes the list element.
renderEvents_notWritten(events) == [state |-> "initial", cards |-> << >>]

\* Faulty variant: the empty sequence is rendered as a list of no cards.
renderEvents_noEmptyState(events) ==
    [state |-> "cards", cards |-> [i \in DOMAIN events |-> EventCard(events[i])]]

\* The innerHTML renderEvents gives the list element.
renderEvents(events) ==
    IF Len(events) = 0
    THEN [state |-> "empty-state", cards |-> << >>]
    ELSE [state |-> "cards", cards |-> [i \in DOMAIN events |-> EventCard(events[i])]]

\* -------------------------------------------------------------- filterEvents
\* The selectors the filter buttons carry in data-group.
Selectors == {"all", "equal-love", "not-equal-me", "nearly-equal-joy", "unknown"}

\* Faulty variant: 'all' is filtered like a category.
SelectEvents_noWildcard(events, group) ==
    LET Keep(event) == event.group = group IN SelectSeq(events, Keep)

\* group === 'all' ? allEvents : allEvents.filter(event => event.group === group)
SelectEvents(events, group) ==
    IF group = "all" THEN events
    ELSE LET Keep(event) == event.group = group IN SelectSeq(events, Keep)

\* Faulty variant: the filtered sequence is stored as the collection.
filterEvents_narrow(g, group) ==
    LET filtered == SelectEvents(g.allEvents, group)
    IN [allEvents |-> filtered,
        currentFilter |-> group,
        activeBtn |-> {group},
        renderArg |-> Some(filtered),
        listEl |-> renderEvents(filtered)]

\* Faulty variant: selecting the current selector again resets it to 'all'.
filterEvents_toggle(g, group) ==
    LET chosen == IF g.currentFilter = group THEN "all" ELSE group
        filtered == SelectEvents(g.allEvents, chosen)
    IN [allEvents |-> g.allEvents,
        currentFilter |-> chosen,
        activeBtn |-> {chosen},
        renderArg |-> Some(filtered),
        listEl |-> renderEvents(filtered)]

\* The globals and the list element after filterEvents(group), from the
\* globals g before.
filterEvents(g, group) ==
    LET filtered == SelectEvents(g.allEvents, group)
    IN [allEvents |-> g.allEvents,
        currentFilter |-> group,
        activeBtn |-> {b \in Selectors : b = group},
        renderArg |-> Some(filtered),
        listEl |-> renderEvents(filtered)]

\* --------------------------------------------------------------------- state
VARIABLES
    pc,              \* where init/fetchEvents stand: "start", "awaitFetch",
                     \* "awaitJson", "resolved" (fetchEvents returned), "loaded"
    allEvents,       \* the session collection
    currentFilter,   \* the current selector
    eventList,       \* fetchEvents: the accumulator
    pageToken,       \* fetchEvents: the continuation token
    requests,        \* the URLs requested so far, in order
    responses,       \* the bodies parsed so far, in order
    result,          \* what fetchEvents resolved to (undefined before)
    caught,          \* whether fetchEvents caught (and logged) a failure
    listEl,          \* innerHTML of the list element
    renderArg,       \* the sequence last passed to renderEvents
    textContent,     \* the text of the count slots
    counts,          \* the counts object of updateStats (undefined before)
    loadingDisplay,  \* style.display of the loading indicator
    statsDisplay,    \* style.display of the statistics block
    activeBtn,       \* the data-group values of the buttons with class active
    lastHandler      \* the callback that ran last, with its argument

vars == <<pc, allEvents, currentFilter, eventList, pageToken, requests, responses,
          result, caught, listEl, renderArg, textContent, counts, loadingDisplay,
          statsDisplay, activeBtn, lastHandler>>

fetchVars == <<eventList, pageToken, requests, responses, result, caught>>

viewVars == <<listEl, renderArg, activeBtn>>

statVars == <<textContent, counts, loadingDisplay, statsDisplay>>

RECURSIVE DocsServed(_)
DocsServed(bodies) ==
    IF bodies = << >> THEN 0
    ELSE (IF Head(bodies).documents = Undefined THEN 0 ELSE Len(Head(bodies).documents[1]))
         + DocsServed(Tail(bodies))

\* The bodies the endpoint may answer the next request with: the documents
\* absent or up to MaxPageDocs of them (MaxDocs in all), with or without a
\* next-page token; the last page within MaxPages carries none.
Bodies ==
    LET have == DocsServed(responses)
        page == Len(responses) + 1
        room == IF MaxDocs - have < MaxPageDocs THEN MaxDocs - have ELSE MaxPageDocs
        docs == {Undefined} \cup
                UNION { {Some(d) : d \in DocSeqs(have, k)} : k \in 1..room }
        tokens == {Undefined} \cup
                  (IF page < MaxPages THEN {TokenAfter(page)} ELSE {})
    IN { [documents |-> d, nextPageToken |-> t] : d \in docs, t \in tokens }

Init ==
    /\ pc = "start"
    /\ allEvents = << >>
    /\ currentFilter = "all"
    /\ eventList = << >>
    /\ pageToken = Undefined
    /\ requests = << >>
    /\ responses = << >>
    /\ result = Undefined
    /\ caught = FALSE
    /\ listEl = [state |-> "initial", cards |-> << >>]
    /\ renderArg = Undefined
    /\ textContent = [slot \in StatSlots |-> ""]
    /\ counts = Undefined
    /\ loadingDisplay = ""
    /\ statsDisplay = ""
    /\ activeBtn = {"all"}   \* the markup marks the button of the initial selector
    /\ lastHandler = <<"none", "">>

\* DOMContentLoaded: init registers the click handlers and calls fetchEvents,
\* which runs up to its first await: the first request is issued.
DOMContentLoaded ==
    /\ pc = "start"
    /\ eventList' = << >>
    /\ pageToken' = Undefined
    /\ requests' = Append(requests, RequestUrl(Undefined))
    /\ pc' = "awaitFetch"
    /\ lastHandler' = <<"init", "">>
    /\ UNCHANGED <<allEvents, currentFilter, responses, result, caught, viewVars, statVars>>

\* fetchEvents leaves through its catch clause.
Catch ==
    /\ caught' = TRUE
    /\ result' = Some(CatchResult(eventList))
    /\ pc' = "resolved"
    /\ lastHandler' = <<"fetchEvents", "">>
    /\ requests' = RequestsAfterCatch(requests)
    /\ UNCHANGED <<allEvents, currentFilter, eventList, pageToken, responses,
                   viewVars, statVars>>

\* await fetch(url) rejects: a transport error.
FetchRejects ==
    /\ pc = "awaitFetch"
    /\ Catch

\* The response arrives with ok false: fetchEvents throws.
ResponseNotOk ==
    /\ pc = "awaitFetch"
    /\ Catch

\* The response arrives with ok true: fetchEvents awaits response.json().
ResponseOk ==
    /\ pc = "awaitFetch"
    /\ pc' = "awaitJson"
    /\ lastHandler' = <<"fetchEvents", "">>
    /\ UNCHANGED <<allEvents, currentFilter, fetchVars, viewVars, statVars>>

\* await response.json() rejects: a parse error.
JsonRejects ==
    /\ pc = "awaitJson"
    /\ Catch

\* response.json() resolves to data: the rest of the loop body, the loop
\* condition, and either the next request or the return.
JsonResolves ==
    /\ pc = "awaitJson"
    /\ \E data \in Bodies :
        LET token == NextPageToken(data)
            list == AfterPage(eventList, data)
        IN /\ responses' = Append(responses, data)
           /\ pageToken' = token
           /\ eventList' = list
           /\ IF Truthy(token)
              THEN /\ requests' = Append(requests, RequestUrl(token))
                   /\ pc' = "awaitFetch"
                   /\ result' = result
              ELSE /\ requests' = requests
                   /\ pc' = "resolved"
                   /\ result' = Some(list)
    /\ lastHandler' = <<"fetchEvents", "">>
    /\ UNCHANGED <<allEvents, currentFilter, caught, viewVars, statVars>>

\* init resumes after await fetchEvents(): sort, show, count, render.
InitResume ==
    /\ pc = "resolved"
    /\ \E sorted \in {SortEvents(result[1])} :
       \E computed \in {CountEvents(ZeroCounts, sorted)} :
          /\ allEvents' = sorted
          /\ counts' = Some(computed)
          /\ textContent' = StatsText(computed, sorted)
          /\ renderArg' = Some(sorted)
          /\ listEl' = renderEvents(sorted)
    /\ loadingDisplay' = "none"
    /\ statsDisplay' = "grid"
    /\ pc' = "loaded"
    /\ lastHandler' = <<"init", "">>
    /\ UNCHANGED <<currentFilter, fetchVars, activeBtn>>

\* A click on the filter button of `group`; the handlers exist once init has
\* registered them, and no click runs between the return of fetchEvents and
\* the resumption of init (both are microtasks of one task).
Click(group) ==
    /\ pc \in {"awaitFetch", "awaitJson", "loaded"}
    /\ LET after == filterEvents([allEvents |-> allEvents, currentFilter |-> currentFilter,
                                  activeBtn |-> activeBtn, renderArg |-> renderArg,
                                  listEl |-> listEl], group)
       IN /\ allEvents' = after.allEvents
          /\ currentFilter' = after.currentFilter
          /\ activeBtn' = after.activeBtn
          /\ renderArg' = after.renderArg
          /\ listEl' = after.listEl
    /\ lastHandler' = <<"filterEvents", group>>
    /\ UNCHANGED <<pc, fetchVars, statVars>>

Next ==
    \/ DOMContentLoaded
    \/ FetchRejects
    \/ ResponseNotOk
    \/ ResponseOk
    \/ JsonRejects
    \/ JsonResolves
    \/ InitResume
    \/ \E group \in Selectors : Click(group)

Spec == Init /\ [][Next]_vars

\* The steps that settle a pending await, told by the positions they join:
\* among the steps of Next, Responded holds of FetchRejects, ResponseNotOk
\* and ResponseOk and of no other, Parsed of JsonRejects and JsonResolves,
\* Resumed of InitResume.
Responded == pc = "awaitFetch" /\ pc' \in {"awaitJson", "resolved"}

Parsed == pc = "awaitJson" /\ pc' \in {"awaitFetch", "resolved"}

Resumed == pc = "resolved" /\ pc' = "loaded"

\* Every request gets a response (or a rejection), every response body is
\* parsed (or fails to parse), and a resolved await resumes init.
FairSpec ==
    /\ Init
    /\ [][Next]_vars
    /\ WF_pc(Responded)
    /\ WF_pc(Parsed)
    /\ WF_pc(Resumed)

\* =================================================================== claims
\* The documents of all the bodies parsed so far, in page order.
RECURSIVE AllDocs(_)
AllDocs(bodies) ==
    IF bodies = << >> THEN << >>
    ELSE (IF Head(bodies).documents = Undefined THEN << >> ELSE Head(bodies).documents[1])
         \o AllDocs(Tail(bodies))

Loaded == pc = "loaded"

\* C1: the first request carries no continuation token, every later request
\* carries exactly the token of the response just before it, and no request
\* follows a response without a token.
C1_TokenChain ==
    /\ requests # << >> => requests[1] = <<API_URL>>
    /\ Len(requests) <= Len(responses) + 1
    /\ \A i \in DOMAIN requests :
          i > 1 => /\ i - 1 \in DOMAIN responses
                   /\ responses[i - 1].nextPageToken # Undefined
                   /\ requests[i] = <<API_URL, "?pageToken=",
                                      responses[i - 1].nextPageToken[1]>>
    /\ \A i \in DOMAIN responses :
          responses[i].nextPageToken = Undefined => Len(requests) <= i

\* A two-page endpoint: two documents and a token, then one document and no
\* token; exactly two requests were made and three records loaded.
C1_Witness ==
    /\ Loaded
    /\ ~caught
    /\ Len(responses) = 2
    /\ responses[1].documents # Undefined /\ Len(responses[1].documents[1]) = 2
    /\ responses[1].nextPageToken # Undefined
    /\ responses[2].documents # Undefined /\ Len(responses[2].documents[1]) = 1
    /\ responses[2].nextPageToken = Undefined
    /\ Len(requests) = 2
    /\ Len(allEvents) = 3

\* C2: when no request failed, what fetchEvents resolves to is one normalized
\* record per document of every page, in page order and within-page order;
\* the accumulator is that concatenation after every page.
C2_Concatenation ==
    ~caught =>
        LET docs == AllDocs(responses)
            InOrder(list) ==
                /\ Len(list) = DocsServed(responses)
                /\ Len(list) = Len(docs)
                /\ \A i \in DOMAIN list : list[i] = NormalizeDoc(docs[i])
        IN /\ InOrder(eventList)
           /\ result # Undefined => InOrder(result[1])

C2_Witness ==
    /\ ~caught
    /\ result # Undefined
    /\ Len(responses) = 3
    /\ responses[1].documents # Undefined /\ Len(responses[1].documents[1]) = 2
    /\ responses[2].documents = Undefined
    /\ responses[3].documents # Undefined /\ Len(responses[3].documents[1]) = 1
    /\ Len(result[1]) = 3

\* C3: once a request has failed, fetchEvents has resolved (not thrown) to
\* the empty collection, whatever was accumulated before, and the session
\* collection init takes from it is empty.
C3_FailureIsEmpty ==
    caught =>
        /\ pc \in {"resolved", "loaded"}
        /\ result = Some(<< >>)
        /\ allEvents = << >>

\* A failure on a later page, after documents were accumulated.
C3_Witness ==
    /\ caught
    /\ Loaded
    /\ Len(responses) >= 1
    /\ Len(eventList) >= 2
    /\ renderArg = Some(<< >>)

\* The k-th index of events, in increasing order, whose record has category c.
NthOfGroup(events, c, k) ==
    LET idx == {i \in DOMAIN events : events[i].group = c}
    IN CHOOSE i \in idx : Cardinality({j \in idx : j <= i}) = k

\* r is the order-preserving subsequence of the records of category c.
IsGroupSubsequence(r, events, c) ==
    /\ Len(r) = Cardinality({i \in DOMAIN events : events[i].group = c})
    /\ \A k \in DOMAIN r : r[k] = events[NthOfGroup(events, c, k)]

\* C4: the sequence filterEvents passes to the renderer is the whole
\* collection under "all", and otherwise the order-preserving subsequence of
\* the records whose category is the selector.
C4_FilterReference ==
    lastHandler[1] = "filterEvents" =>
        /\ renderArg # Undefined
        /\ IF lastHandler[2] = "all"
           THEN renderArg[1] = allEvents
           ELSE IsGroupSubsequence(renderArg[1], allEvents, lastHandler[2])

\* "unknown" selected on a collection with two fallback records around a
\* record of a configured category.
C4_Witness ==
    /\ Loaded
    /\ lastHandler = <<"filterEvents", "unknown">>
    /\ Len(allEvents) = 3
    /\ allEvents[1].group = "unknown"
    /\ allEvents[2].group # "unknown"
    /\ allEvents[3].group = "unknown"
    /\ renderArg = Some(<<allEvents[1], allEvents[3]>>)

\* The position of record e in the fetched sequence.
FetchIndex(e) == CHOOSE k \in DOMAIN result[1] : result[1][k] = e

\* C5: after init has sorted, the collection is a permutation of the fetched
\* records, descending by created, equal created keeping the fetch order.
C5_StableDescending ==
    Loaded =>
        /\ Len(allEvents) = Len(result[1])
        /\ Range(allEvents) = Range(result[1])
        /\ \A i, j \in DOMAIN allEvents : i # j => allEvents[i] # allEvents[j]
        /\ \A i \in DOMAIN allEvents :
              i > 1 => allEvents[i - 1].created >= allEvents[i].created
        /\ \A i, j \in DOMAIN allEvents :
              (i < j /\ allEvents[i].created = allEvents[j].created)
                  => FetchIndex(allEvents[i]) < FetchIndex(allEvents[j])

\* The sort moved a later, newer record in front of two older records of
\* equal created, which kept their order.
C5_Witness ==
    /\ Loaded
    /\ Len(result[1]) = 3
    /\ result[1][1].created = 100
    /\ result[1][2].created = 100
    /\ result[1][3].created = 200
    /\ allEvents = <<result[1][3], result[1][1], result[1][2]>>

\* C6: every record of the session collection has a category that is a key
\* of GROUP_CONFIG.
C6_CategoryIsKey ==
    \A i \in DOMAIN allEvents : allEvents[i].group \in DOMAIN GROUP_CONFIG

\* A loaded record whose document carried a URL that is no configured one.
C6_Witness ==
    /\ Loaded
    /\ allEvents # << >>
    /\ \E i \in DOMAIN AllDocs(responses) :
          AllDocs(responses)[i].fields.official_site_url = Some("https://equal-love.jp")

\* The key whose reference URL is exactly u, the fallback for any other u.
GroupOfUrl(u) ==
    CASE u = "https://equal-love.jp/" -> "equal-love"
      [] u = "https://not-equal-me.jp/" -> "not-equal-me"
      [] u = "https://nearly-equal-joy.jp/" -> "nearly-equal-joy"
      [] OTHER -> "unknown"

\* C7: the category officialSiteToGroup gave each document is the key whose
\* reference URL equals the document's URL exactly, and "unknown" for every
\* other URL, the empty string of an absent URL included.
C7_Classification ==
    LET docs == AllDocs(responses)
    IN \A i \in DOMAIN eventList :
          /\ i \in DOMAIN docs
          /\ eventList[i].group = GroupOfUrl(OrElse(docs[i].fields.official_site_url, ""))

\* A configured URL, a URL that misses one by its trailing slash, and an
\* absent URL have been classified.
C7_Witness ==
    LET docs == AllDocs(responses)
    IN /\ Len(eventList) = 3
       /\ Len(docs) = 3
       /\ docs[1].fields.official_site_url = Some("https://nearly-equal-joy.jp/")
       /\ docs[2].fields.official_site_url = Some("https://equal-love.jp")
       /\ docs[3].fields.official_site_url = Undefined
       /\ eventList[1].group = "nearly-equal-joy"
       /\ eventList[2].group = "unknown"
       /\ eventList[3].group = "unknown"

\* C8: after updateStats each category's count is the number of records of
\* that category, the total shown is the size of the collection, and the
\* counts of all configured categories sum to it.
C8_Counts ==
    counts # Undefined =>
        LET c == counts[1]
            n(k) == Cardinality({i \in DOMAIN allEvents : allEvents[i].group = k})
        IN /\ DOMAIN c = DOMAIN GROUP_CONFIG
           /\ \A k \in DOMAIN c : c[k] = n(k)
           /\ textContent["count-all"] = NumToString(Len(allEvents))
           /\ c["equal-love"] + c["not-equal-me"] + c["nearly-equal-joy"] + c["unknown"]
                 = Len(allEvents)
           /\ \A k \in {"equal-love", "not-equal-me", "nearly-equal-joy"} :
                 /\ textContent["count-" \o k] = NumToString(n(k))
                 /\ textContent["stat-" \o k] = NumToString(n(k))

C8_Witness ==
    /\ Loaded
    /\ counts # Undefined
    /\ counts[1]["unknown"] = 2
    /\ counts[1]["equal-love"] = 1
    /\ textContent["count-all"] = "3"

\* C9: once the load has completed, a step (a selection event) leaves the
\* collection, the counts and everything but the current selector and the
\* rendered view unchanged.
C9_SelectionFrame ==
    [][Loaded => /\ allEvents' = allEvents
                 /\ textContent' = textContent
                 /\ counts' = counts
                 /\ UNCHANGED <<pc, fetchVars, loadingDisplay, statsDisplay>>]_vars

\* A selection after the load narrowed the view of a non-empty collection.
C9_Witness ==
    /\ Loaded
    /\ lastHandler[1] = "filterEvents"
    /\ currentFilter # "all"
    /\ Len(allEvents) = 3
    /\ renderArg # Some(allEvents)
    /\ textContent["count-all"] = "3"

\* C10: a selection of the selector that the selection just before it chose
\* leaves the current selector, the collection and the rendered sequence
\* as the first selection left them.
C10_Idempotent ==
    [][(lastHandler[1] = "filterEvents" /\ lastHandler' = lastHandler)
          => UNCHANGED <<currentFilter, allEvents, renderArg, listEl, activeBtn>>]_vars

C10_Witness ==
    /\ Loaded
    /\ lastHandler = <<"filterEvents", "equal-love">>
    /\ currentFilter = "equal-love"
    /\ Len(allEvents) = 3
    /\ renderArg # Undefined /\ Len(renderArg[1]) = 1
    /\ listEl.state = "cards"

\* C11: the list shows the empty-state, and no card, exactly when the
\* sequence given to renderEvents is empty; otherwise it shows one card per
\* record, in the given order, and no empty-state.
C11_EmptyStateIffEmpty ==
    renderArg # Undefined =>
        LET given == renderArg[1]
        IN /\ (listEl.state = "empty-state") <=> (given = << >>)
           /\ listEl.state = "empty-state" => listEl.cards = << >>
           /\ given # << >> =>
                 /\ listEl.state = "cards"
                 /\ Len(listEl.cards) = Len(given)
                 /\ \A i \in DOMAIN given :
                       /\ listEl.cards[i].class = given[i].group
                       /\ listEl.cards[i].href =
                             <<"https://monosys.net/", given[i].group, "/", given[i].id>>

\* A category without records selected on a loaded collection of three.
C11_Witness ==
    /\ Loaded
    /\ Len(allEvents) = 3
    /\ lastHandler = <<"filterEvents", "not-equal-me">>
    /\ renderArg = Some(<< >>)
    /\ listEl = [state |-> "empty-state", cards |-> << >>]

\* C12: the list is not rendered while the initial fetch is still running,
\* whatever selection events arrive meanwhile.
C12_NoRenderBeforeLoad ==
    pc \in {"awaitFetch", "awaitJson"} =>
        /\ renderArg = Undefined
        /\ listEl.state = "initial"

\* What the user sees: the list, the count slots, the loading indicator, the
\* statistics block and the active button.
VisibleState ==
    [listEl |-> listEl, textContent |-> textContent, loadingDisplay |-> loadingDisplay,
     statsDisplay |-> statsDisplay, activeBtn |-> activeBtn]

\* What the user sees of a loaded session without events whose last selection
\* (or the initial selector, when none was made) is `selector`.
EmptyView(selector) ==
    [listEl |-> [state |-> "empty-state", cards |-> << >>],
     textContent |-> [slot \in StatSlots |-> "0"],
     loadingDisplay |-> "none",
     statsDisplay |-> "grid",
     activeBtn |-> {selector}]

\* C13: after the load, what the user sees after a failed fetch and what the
\* user sees after a successful fetch of zero documents is the same function
\* of the selection events alone (of the last selector chosen).
C13_FailureLooksEmpty ==
    (Loaded /\ (caught \/ DocsServed(responses) = 0)) =>
        VisibleState = EmptyView(currentFilter)

\* A fetch that failed after two documents had been accumulated, with a
\* selection made.
C13_Witness ==
    /\ Loaded
    /\ caught
    /\ Len(eventList) = 2
    /\ currentFilter = "equal-love"
    /\ lastHandler = <<"init", "">>

\* C14: a parsed body without documents but with a token is followed by the
\* request for that token, the accumulator kept; fetchEvents returns only on
\* a body without a token or on a failure.
C14_EmptyPageContinues ==
    [][/\ (pc = "awaitJson" /\ responses' # responses) =>
            LET data == responses'[Len(responses')]
            IN /\ (data.documents = Undefined /\ data.nextPageToken # Undefined) =>
                     /\ pc' = "awaitFetch"
                     /\ eventList' = eventList
                     /\ result' = Undefined
                     /\ requests' = Append(requests, <<API_URL, "?pageToken=",
                                                       data.nextPageToken[1]>>)
               /\ pc' = "resolved" => data.nextPageToken = Undefined
       /\ (pc # "resolved" /\ pc' = "resolved" /\ responses' = responses) => caught'
      ]_vars

\* Two documents and a token, then a body without documents but with a
\* token: the third request is out and both records are kept.
C14_Witness ==
    /\ pc = "awaitFetch"
    /\ Len(responses) = 2
    /\ responses[1].documents # Undefined /\ Len(responses[1].documents[1]) = 2
    /\ responses[2].documents = Undefined
    /\ responses[2].nextPageToken # Undefined
    /\ Len(requests) = 3
    /\ Len(eventList) = 2

\* The load is complete: loading indicator hidden, counts updated, list
\* rendered.
LoadCompleted ==
    /\ Loaded
    /\ result # Undefined
    /\ loadingDisplay = "none"
    /\ statsDisplay = "grid"
    /\ counts # Undefined
    /\ textContent["count-all"] = NumToString(Len(allEvents))
    /\ renderArg # Undefined
    /\ listEl.state \in {"empty-state", "cards"}

\* C15: when every request is answered and the endpoint ends the pages (a
\* body without token, or a failure, within MaxPages), a started fetch leads
\* to the completed load; and every body that carries a token is followed by
\* one more request.
C15_LoadCompletes ==
    /\ (pc = "awaitFetch") ~> LoadCompleted
    /\ [][(pc = "awaitJson" /\ responses' # responses
              /\ responses'[Len(responses')].nextPageToken # Undefined)
             => (pc' = "awaitFetch" /\ Len(requests') = Len(requests) + 1)]_vars

\* The load completed after the longest fetch the bound allows.
C15_Witness ==
    /\ LoadCompleted
    /\ ~caught
    /\ Len(requests) = MaxPages
    /\ Len(responses) = MaxPages
    /\ allEvents # << >>

\* C16: the current selector starts as "all", and whenever the list has been
\* rendered, the rendered sequence is the filter of the session collection by
\* the current selector.
C16_ViewMatchesSelector ==
    /\ pc = "start" => currentFilter = "all"
    /\ renderArg # Undefined =>
          IF currentFilter = "all"
          THEN renderArg[1] = allEvents
          ELSE IsGroupSubsequence(renderArg[1], allEvents, currentFilter)

\* C17: no page is requested twice, and neither the step in which a request
\* fails, nor any step after it, nor any selection event issues a request.
C17_NoRetries ==
    [][/\ \A i, j \in DOMAIN requests' : i # j => requests'[i] # requests'[j]
       /\ (caught' \/ lastHandler'[1] = "filterEvents") => requests' = requests
      ]_vars

\* The second request failed, the load completed, and a selection was made
\* afterwards: two requests in all.
C17_Witness ==
    /\ caught
    /\ Loaded
    /\ Len(responses) = 1
    /\ Len(requests) = 2
    /\ lastHandler = <<"filterEvents", "unknown">>

\* C18: a document without the name field gives a record with the empty
\* name, one without the URL field a record of the fallback category, and
\* such a document does not abort the fetch: with no request failed, every
\* document served has its record.
C18_AbsentFieldsDefaulted ==
    LET docs == AllDocs(responses)
    IN /\ \A i \in DOMAIN eventList :
             /\ i \in DOMAIN docs
             /\ docs[i].fields.event_name = Undefined => eventList[i].name = ""
             /\ docs[i].fields.event_name # Undefined =>
                   eventList[i].name = docs[i].fields.event_name[1]
             /\ docs[i].fields.official_site_url = Undefined =>
                   eventList[i].group = "unknown"
       /\ ~caught => Len(eventList) = Len(docs)
       /\ (~caught /\ result # Undefined) => Len(result[1]) = Len(docs)

\* A document without name, then one without URL, then one with both: the
\* fetch went on to the next page and resolved to three records.
C18_Witness ==
    LET docs == AllDocs(responses)
    IN /\ ~caught
       /\ Loaded
       /\ Len(responses) = 2
       /\ Len(docs) = 3
       /\ docs[1].fields.event_name = Undefined
       /\ docs[2].fields.official_site_url = Undefined
       /\ docs[3].fields.event_name # Undefined
       /\ docs[3].fields.official_site_url # Undefined
       /\ Len(allEvents) = 3

====
